---- MODULE Spec2Model ----
(***************************************************************************)
(* The compat component of Icinga 2 (components/compat/compatcomponent.cpp):*)
(* the command pipe (CommandPipeThread, ProcessCommand) and the periodic   *)
(* writer of status.dat / objects.cache (StatusTimerHandler).              *)
(*                                                                         *)
(* Text is modelled as a sequence of one-character strings, so that        *)
(* indexing, searching, cutting and splitting are computed character by    *)
(* character, with the 0-based positions of the code.                      *)
(***************************************************************************)
EXTENDS Integers, Sequences, FiniteSets, TLC

VARIABLES
    node,        \* what lstat() finds at the command path
    pc,          \* where CommandPipeThread stands
    exitCause,   \* the call whose failure made CommandPipeThread throw
    fds,         \* pipe handles the thread holds open
    writer,      \* a writing peer has the pipe open
    pipe,        \* bytes written to the pipe and not yet read
    written,     \* lines written to the pipe so far
    eventQueue,  \* commands posted with Event::Post, not yet run
    log,         \* one record per ProcessCommand call run by the event loop
    origin,      \* the parts the posted line was built from (decode runs)
    sawEof,      \* the thread has met an end-of-stream and closed its handle
    setup,       \* while the pipe is set up: what lstat() found, the calls made since
    registry,    \* the hosts, host groups, services and service groups
    clock,       \* the time Utility::GetTime() and time(NULL) returned last
    hpc,         \* where StatusTimerHandler stands: idle when it is not running
    cycle,       \* calls of StatusTimerHandler so far
    good,        \* per stream (statusfp, objectfp): open and no write has failed
    tmp,         \* the files at <path>.tmp
    pub,         \* the files at the published paths
    pubAtStart,  \* the published files when the running cycle began
    outcome,     \* how the last call of StatusTimerHandler ended
    faults,      \* failed opens, writes and renames of the files so far
    running,     \* calls of StatusTimerHandler begun and not yet ended
    due          \* the timer has expired during a call, which it has still to make

cmdVars ==
    <<node, pc, exitCause, fds, writer, pipe, written, eventQueue, log, origin, sawEof,
      setup>>

pubVars ==
    <<registry, clock, hpc, cycle, good, tmp, pub, pubAtStart, outcome, faults,
      running, due>>

vars == <<cmdVars, pubVars>>

(***************************************************************************)
(* Bounds of the model.                                                    *)
(***************************************************************************)
MaxGarbage == 3   \* longest line enumerated over the whole alphabet
MaxTs == 2        \* longest text between '[' and ']'
MaxFields == 3    \* most ';'-separated fields of a built line
MaxWrites == 2    \* lines written to the pipe in one run
MaxCycles == 3    \* calls of StatusTimerHandler in one run
MaxClock == 1     \* the clock runs from 0 to MaxClock
MaxFaults == 2    \* opens, writes and renames made to fail in one run

(***************************************************************************)
(* Strings.                                                                *)
(***************************************************************************)
Alphabet == {"[", "]", " ", ";", "0", "1", "a", "b"}
Digits == {"0", "1"}
TsChars == {"0", "1", "a", " "}
FieldValues == {<<>>, <<"a">>, <<"b">>, <<" ", "a">>, <<"a", "]">>}
Separators == {<<" ">>, <<"a">>, <<";">>}

Str(A, n) == UNION {[1..k -> A] : k \in 0..n}

\* String::NPos, the position no character has.
NPos == 0 - 1

IsEmpty(s) == Len(s) = 0

\* s[i], i counted from 0.
At(s, i) == s[i + 1]

\* First position (from 0) of character c in s, or NPos.
FindFirstOf(s, c) ==
    IF \E i \in 1..Len(s) : s[i] = c
    THEN (CHOOSE i \in 1..Len(s) : s[i] = c /\ \A j \in 1..(i - 1) : s[j] # c) - 1
    ELSE NPos

\* std::string::substr(first, len) throws std::out_of_range when first > size().
SubStrThrows(s, first) == first > Len(s)

\* substr(first, len) for first <= size(): at most len characters from first on,
\* all of the rest when len is NPos.
SubStr(s, first, len) ==
    LET avail == Len(s) - first
        n == IF len = NPos \/ len > avail THEN avail ELSE len
    IN  SubSeq(s, first + 1, first + n)

RECURSIVE SplitFrom(_, _, _)
\* The tokens of s from position i (1-based) on, cur being the token in progress.
SplitFrom(s, i, cur) ==
    IF i > Len(s) THEN <<cur>>
    ELSE IF s[i] = ";" THEN <<cur>> \o SplitFrom(s, i + 1, <<>>)
    ELSE SplitFrom(s, i + 1, Append(cur, s[i]))

\* A split that merges adjacent separators (and so drops empty tokens).
SplitMerged(s) == SelectSeq(SplitFrom(s, 1, <<>>), LAMBDA t : t # <<>>)

\* boost::algorithm::split with is_any_of(";"), adjacent separators not merged:
\* one token more than there are ';', so the empty string gives one empty token.
Split(s) == SplitFrom(s, 1, <<>>)

DigitValue(c) == IF c = "1" THEN 1 ELSE 0

RECURSIVE DigitsValue(_)
DigitsValue(s) ==
    IF s = <<>> THEN 0
    ELSE 10 * DigitsValue(SubSeq(s, 1, Len(s) - 1)) + DigitValue(s[Len(s)])

IsNumeric(s) == s # <<>> /\ \A i \in 1..Len(s) : s[i] \in Digits

RECURSIVE SkipSpaces(_)
SkipSpaces(s) == IF s # <<>> /\ s[1] = " " THEN SkipSpaces(Tail(s)) ELSE s

RECURSIVE DigitPrefix(_)
DigitPrefix(s) ==
    IF s # <<>> /\ s[1] \in Digits THEN <<s[1]>> \o DigitPrefix(Tail(s)) ELSE <<>>

\* String::ToDouble. A text that is a number gives its value; a text with no
\* leading number gives 0. For a number followed by other characters (or led by
\* blanks) the result is either the leading number (strtod) or 0 (a strict
\* conversion): both are allowed.
ToDouble(s) ==
    IF IsNumeric(s) THEN {DigitsValue(s)}
    ELSE {0, DigitsValue(DigitPrefix(SkipSpaces(s)))}

(***************************************************************************)
(* The registry StatusTimerHandler reads, and the text it writes.          *)
(*                                                                         *)
(* A document is the sequence of its blocks; a block is its section name   *)
(* and its lines, each a pair of key and printed value. Values are printed *)
(* as the stream prints them under std::fixed: an integer by its digits, a *)
(* double with six decimals.                                               *)
(***************************************************************************)
\* The highest service state the status file knows (StateUnknown); the state
\* after it is StateUncheckable, that of a service not checked yet.
StateUnknown == 3
StateUncheckable == 4

\* AcknowledgementNone
AcknowledgementNone == 0

\* Utility::GetPid() and IcingaApplication::GetStartTime() of the running daemon.
Pid == 4242
StartTime == 0

NoCheckResult == <<>>

CheckResult(output, ss, se, es, ee, perf) ==
    <<[output |-> output, schedule_start |-> ss, schedule_end |-> se,
       execution_start |-> es, execution_end |-> ee, performance_data_raw |-> perf]>>

MkHost(name, alias, reachable, up, parents) ==
    [name |-> name, alias |-> alias, reachable |-> reachable, up |-> up,
     parents |-> parents]

MkGroup(name, alias, members) ==
    [name |-> name, alias |-> alias, notes_url |-> "", action_url |-> "",
     members |-> members]

MkService(host, alias, interval, retry, cr, state) ==
    [host |-> host, alias |-> alias, check_interval |-> interval,
     retry_interval |-> retry, cr |-> cr, state |-> state, state_type |-> 1,
     next_check |-> 1, current_attempt |-> 1, max_attempts |-> 3,
     last_state_change |-> 0, last_hard_state_change |-> 0,
     active |-> TRUE, passive |-> FALSE,
     acknowledgement |-> AcknowledgementNone, acknowledgement_expiry |-> 0]

\* Two hosts, the second behind the first and unreachable; a checked service and
\* one never checked; groups with members and without.
RegistryAtStart ==
    [hosts |-> <<MkHost("h1", "host one", TRUE, FALSE, <<>>),
                 MkHost("h2", "host two", FALSE, TRUE, <<"h1">>)>>,
     hostgroups |-> <<MkGroup("hg1", "group one", <<"h1", "h2">>),
                      MkGroup("hg2", "group two", <<>>)>>,
     services |-> <<MkService("h1", "ping", 300, 100,
                              CheckResult("PING OK", 0, 1, 0, 1, "rta=1"), 0),
                    MkService("h2", "disk", 90, 60, NoCheckResult, StateUncheckable)>>,
     servicegroups |-> <<MkGroup("sg1", "services one",
                                 <<[host |-> "h1", alias |-> "ping"],
                                   [host |-> "h2", alias |-> "disk"]>>)>>]

\* The same after the first check of the service "disk".
RegistryChecked ==
    [RegistryAtStart EXCEPT
        !.services[2].cr = CheckResult("DISK CRITICAL", 0, 0, 0, 0, ""),
        !.services[2].state = 2]

\* What CIB::GetTaskStatistics may return.
TaskStatistics == {0, 1}

\* operator<< of an integer.
IntStr(n) == ToString(n)

RECURSIVE PadTo(_, _)
PadTo(s, n) == IF Len(s) >= n THEN s ELSE PadTo("0" \o s, n)

\* operator<< of a double under std::fixed, for a whole number of seconds.
Fixed(n) == ToString(n) \o ".000000"

\* operator<< of the double n / 60.0 under std::fixed (six decimals, rounded).
FixedDiv60(n) ==
    LET micro == ((n % 60) * 1000000 + 30) \div 60
    IN  ToString(n \div 60) \o "." \o PadTo(ToString(micro), 6)

Bool01(b) == IF b THEN "1" ELSE "0"

Block(type, kv) == [type |-> type, kv |-> kv]

RECURSIVE JoinComma(_)
\* DumpNameList / DumpStringList: the items, comma-joined.
JoinComma(items) ==
    IF Len(items) = 0 THEN ""
    ELSE IF Len(items) = 1 THEN items[1]
    ELSE items[1] \o "," \o JoinComma(Tail(items))

\* Lines 338-340 and 369-371: the comment lines that open each file.
Comment(title) == Block("#", <<<<title, "This file is auto-generated. Do not modify this file.">>>>)

\* Lines 342-346.
DumpInfo(now) == Block("info", <<<<"created", Fixed(now)>>, <<"version", "2.0">>>>)

\* Lines 348-362.
DumpProgramStatus(st) ==
    Block("programstatus",
          << <<"icinga_pid", IntStr(Pid)>>,
             <<"daemon_mode", "1">>,
             <<"program_start", Fixed(StartTime)>>,
             <<"active_service_checks_enabled", "1">>,
             <<"passive_service_checks_enabled", "1">>,
             <<"active_host_checks_enabled", "0">>,
             <<"passive_host_checks_enabled", "0">>,
             <<"check_service_freshness", "0">>,
             <<"check_host_freshness", "0">>,
             <<"enable_flap_detection", "1">>,
             <<"enable_failure_prediction", "0">>,
             <<"active_scheduled_service_check_stats",
               IntStr(st) \o "," \o IntStr(st) \o "," \o IntStr(st)>> >>)

\* Lines 200-227.
DumpHostStatus(host, now) ==
    LET state == IF ~host.reachable THEN 2 ELSE IF ~host.up THEN 1 ELSE 0
    IN  Block("hoststatus",
              << <<"host_name", host.name>>,
                 <<"has_been_checked", "1">>,
                 <<"should_be_scheduled", "1">>,
                 <<"check_execution_time", "0">>,
                 <<"check_latency", "0">>,
                 <<"current_state", IntStr(state)>>,
                 <<"state_type", "1">>,
                 <<"last_check", Fixed(now)>>,
                 <<"next_check", Fixed(now)>>,
                 <<"current_attempt", "1">>,
                 <<"max_attempts", "1">>,
                 <<"active_checks_enabled", "1">>,
                 <<"passive_checks_enabled", "1">>,
                 <<"last_update", Fixed(now)>> >>)

\* A define host block that has the parents line whether or not there are any.
DumpHostObjectWithParents(host) ==
    Block("define host",
          << <<"host_name", host.name>>,
             <<"alias", host.alias>>,
             <<"check_interval", "1">>,
             <<"retry_interval", "1">>,
             <<"max_check_attempts", "1">>,
             <<"active_checks_enabled", "1">>,
             <<"passive_checks_enabled", "1">>,
             <<"parents", JoinComma(host.parents)>> >>)

\* Lines 229-250: the parents line is written only for a host that has parents.
DumpHostObject(host) ==
    Block("define host",
          << <<"host_name", host.name>>,
             <<"alias", host.alias>>,
             <<"check_interval", "1">>,
             <<"retry_interval", "1">>,
             <<"max_check_attempts", "1">>,
             <<"active_checks_enabled", "1">>,
             <<"passive_checks_enabled", "1">> >>
          \o (IF host.parents # <<>>
              THEN << <<"parents", JoinComma(host.parents)>> >>
              ELSE <<>>))

\* Lines 252-304. now is time(NULL).
DumpServiceStatus(service, now) ==
    LET has == service.cr # NoCheckResult
        output == IF has THEN service.cr[1].output ELSE ""
        perfdata == IF has THEN service.cr[1].performance_data_raw ELSE ""
        schedule_start == IF has THEN service.cr[1].schedule_start ELSE 0 - 1
        schedule_end == IF has THEN service.cr[1].schedule_end ELSE 0 - 1
        execution_start == IF has THEN service.cr[1].execution_start ELSE 0 - 1
        execution_end == IF has THEN service.cr[1].execution_end ELSE 0 - 1
        execution_time == execution_end - execution_start
        latency == (schedule_end - schedule_start) - execution_time
        state == IF service.state > StateUnknown THEN StateUnknown ELSE service.state
    IN  Block("servicestatus",
              << <<"host_name", service.host>>,
                 <<"service_description", service.alias>>,
                 <<"check_interval", FixedDiv60(service.check_interval)>>,
                 <<"retry_interval", FixedDiv60(service.retry_interval)>>,
                 <<"has_been_checked", Bool01(has)>>,
                 <<"should_be_scheduled", "1">>,
                 <<"check_execution_time", Fixed(execution_time)>>,
                 <<"check_latency", Fixed(latency)>>,
                 <<"current_state", IntStr(state)>>,
                 <<"state_type", IntStr(service.state_type)>>,
                 <<"plugin_output", output>>,
                 <<"performance_data", perfdata>>,
                 <<"last_check", Fixed(schedule_end)>>,
                 <<"next_check", Fixed(service.next_check)>>,
                 <<"current_attempt", IntStr(service.current_attempt)>>,
                 <<"max_attempts", IntStr(service.max_attempts)>>,
                 <<"last_state_change", Fixed(service.last_state_change)>>,
                 <<"last_hard_state_change", Fixed(service.last_hard_state_change)>>,
                 <<"last_update", IntStr(now)>>,
                 <<"active_checks_enabled", Bool01(service.active)>>,
                 <<"passive_checks_enabled", Bool01(service.passive)>>,
                 <<"problem_has_been_acknowledged",
                   Bool01(service.acknowledgement # AcknowledgementNone)>>,
                 <<"acknowledgement_type", IntStr(service.acknowledgement)>>,
                 <<"acknowledgement_end_time", Fixed(service.acknowledgement_expiry)>> >>)

\* Lines 306-319.
DumpServiceObject(service) ==
    Block("define service",
          << <<"host_name", service.host>>,
             <<"service_description", service.alias>>,
             <<"check_command", "check_i2">>,
             <<"check_interval", FixedDiv60(service.check_interval)>>,
             <<"retry_interval", FixedDiv60(service.retry_interval)>>,
             <<"max_check_attempts", "1">>,
             <<"active_checks_enabled", Bool01(service.active)>>,
             <<"passive_checks_enabled", Bool01(service.passive)>> >>)

\* Lines 384-393.
DumpHostGroup(hg) ==
    Block("define hostgroup",
          << <<"hostgroup_name", hg.name>>,
             <<"alias", hg.alias>>,
             <<"notes_url", hg.notes_url>>,
             <<"action_url", hg.action_url>>,
             <<"members", JoinComma(hg.members)>> >>)

RECURSIVE Flatten(_)
\* Lines 414-418: host name, then alias, of each member.
Flatten(members) ==
    IF members = <<>> THEN <<>>
    ELSE <<members[1].host, members[1].alias>> \o Flatten(Tail(members))

\* Lines 406-423.
DumpServiceGroup(sg) ==
    Block("define servicegroup",
          << <<"servicegroup_name", sg.name>>,
             <<"alias", sg.alias>>,
             <<"notes_url", sg.notes_url>>,
             <<"action_url", sg.action_url>>,
             <<"members", JoinComma(Flatten(sg.members))>> >>)

(***************************************************************************)
(* StatusTimerHandler. The code never tests its two streams: an open that  *)
(* fails leaves the stream bad and the file at the .tmp path as it was, a  *)
(* write that fails leaves the stream bad and the file short, and every    *)
(* later write to a bad stream is ignored. Only the renames are tested.    *)
(***************************************************************************)
Files == {"status", "objects"}

\* A file: whether it exists, its blocks, and which cycle wrote it, from which
\* registry and at which clock value.
Absent == [exists |-> FALSE, cycle |-> 0, regFrom |-> <<>>, clockFrom |-> 0, blocks |-> <<>>]

\* A file opened with ofstream::out | ofstream::trunc and written with blocks.
Written(c, reg, now, blocks) ==
    [exists |-> TRUE, cycle |-> c, regFrom |-> reg, clockFrom |-> now, blocks |-> blocks]

\* Lines 336-362: what statusfp is given before the loops.
StatusHead(now, st) ==
    <<Comment("Icinga status file"), DumpInfo(now), DumpProgramStatus(st)>>

\* A status body whose servicestatus blocks give the time of the dump as
\* last_check, as the hoststatus blocks do.
StatusBodyStamped(reg, now) ==
    [h \in DOMAIN reg.hosts |-> DumpHostStatus(reg.hosts[h], now)]
        \o [sv \in DOMAIN reg.services |->
                LET b == DumpServiceStatus(reg.services[sv], now)
                IN  [b EXCEPT !.kv = [i \in DOMAIN b.kv |->
                                         IF b.kv[i][1] = "last_check"
                                         THEN <<"last_check", Fixed(now)>>
                                         ELSE b.kv[i]]]]

\* Lines 373-401: what the loops give statusfp, Hosts and then Services.
StatusBody(reg, now) ==
    [h \in DOMAIN reg.hosts |-> DumpHostStatus(reg.hosts[h], now)]
        \o [sv \in DOMAIN reg.services |-> DumpServiceStatus(reg.services[sv], now)]

\* Lines 367-371: what objectfp is given before the loops.
ObjectsHead == <<Comment("Icinga objects cache file")>>

\* Loops that visit Services before HostGroups.
ObjectsBodyServicesFirst(reg) ==
    [h \in DOMAIN reg.hosts |-> DumpHostObject(reg.hosts[h])]
        \o [sv \in DOMAIN reg.services |-> DumpServiceObject(reg.services[sv])]
        \o [g \in DOMAIN reg.hostgroups |-> DumpHostGroup(reg.hostgroups[g])]
        \o [g \in DOMAIN reg.servicegroups |-> DumpServiceGroup(reg.servicegroups[g])]

\* Lines 373-424: what the loops give objectfp: Hosts, HostGroups, Services,
\* ServiceGroups.
ObjectsBody(reg) ==
    [h \in DOMAIN reg.hosts |-> DumpHostObject(reg.hosts[h])]
        \o [g \in DOMAIN reg.hostgroups |-> DumpHostGroup(reg.hostgroups[g])]
        \o [sv \in DOMAIN reg.services |-> DumpServiceObject(reg.services[sv])]
        \o [g \in DOMAIN reg.servicegroups |-> DumpServiceGroup(reg.servicegroups[g])]

\* How a stream fares from its open to its close: all is written ("ok"), the
\* open fails ("open"), the first write fails ("head"), or a write in the loops
\* fails ("body"). Of a failed write's stretch nothing reaches the file.
Fates == {"ok", "open", "head", "body"}

\* The file a stream leaves at its .tmp path.
Leaves(fate, old, c, reg, now, head, body) ==
    CASE fate = "ok" -> Written(c, reg, now, head \o body)
      [] fate = "open" -> old
      [] fate = "head" -> Written(c, reg, now, <<>>)
      [] fate = "body" -> Written(c, reg, now, head)

Failed(fate) == IF fate = "ok" THEN 0 ELSE 1

\* A timer that calls the handler at every expiry, also during a call.
TimerMayCallAlways == TRUE

\* The timer (Timer, connected at lines 81-85) calls the handler only when no
\* call of it is running; an expiry during a call is queued behind it.
TimerMayCall == hpc = "idle"

\* Lines 326-427: the timer calls the handler; it opens both .tmp files, writes
\* them and closes them. The clock has not gone backwards since the last call.
WriteTemps ==
    /\ TimerMayCall
    /\ cycle < MaxCycles
    /\ cycle' = cycle + 1
    /\ pubAtStart' = pub
    /\ outcome' = "running"
    /\ \E now \in clock..MaxClock, st \in TaskStatistics, fs \in Fates, fo \in Fates :
           /\ faults + Failed(fs) + Failed(fo) <= MaxFaults
           /\ faults' = faults + Failed(fs) + Failed(fo)
           /\ clock' = now
           /\ good' = [status |-> fs = "ok", objects |-> fo = "ok"]
           /\ tmp' = [status |-> Leaves(fs, tmp.status, cycle', registry, now,
                                        StatusHead(now, st), StatusBody(registry, now)),
                      objects |-> Leaves(fo, tmp.objects, cycle', registry, now,
                                         ObjectsHead, ObjectsBody(registry))]
    /\ hpc' = "renameStatus"
    /\ running' = running + 1
    /\ due' = FALSE
    /\ UNCHANGED <<registry, pub>>
    /\ UNCHANGED cmdVars

\* Line 435: rename(statuspathtmp, statuspath) succeeds.
RenameStatus ==
    /\ hpc = "renameStatus"
    /\ tmp.status.exists
    /\ pub' = [pub EXCEPT !.status = tmp.status]
    /\ tmp' = [tmp EXCEPT !.status = Absent]
    /\ hpc' = "renameObjects"
    /\ UNCHANGED <<registry, clock, cycle, good, pubAtStart, outcome, faults, running, due>>
    /\ UNCHANGED cmdVars

\* Lines 435-436: rename() fails, as it must when there is no file at the .tmp
\* path: throw; the objects file is not renamed.
RenameStatusFail ==
    /\ hpc = "renameStatus"
    /\ IF tmp.status.exists
       THEN faults < MaxFaults /\ faults' = faults + 1
       ELSE faults' = faults
    /\ hpc' = "idle"
    /\ running' = running - 1
    /\ outcome' = "rename status failed"
    /\ UNCHANGED <<registry, clock, cycle, good, tmp, pub, pubAtStart, due>>
    /\ UNCHANGED cmdVars

\* A replace that removes the published file before the rename (as the _WIN32
\* lines 429-432 do) and then fails.
RenameObjectsFailUnlinked ==
    /\ hpc = "renameObjects"
    /\ IF tmp.objects.exists
       THEN faults < MaxFaults /\ faults' = faults + 1
       ELSE faults' = faults
    /\ pub' = [pub EXCEPT !.objects = Absent]
    /\ hpc' = "idle"
    /\ running' = running - 1
    /\ outcome' = "rename objects failed"
    /\ UNCHANGED <<registry, clock, cycle, good, tmp, pubAtStart, due>>
    /\ UNCHANGED cmdVars

\* Line 439: rename(objectspathtmp, objectspath) succeeds; the handler returns.
RenameObjects ==
    /\ hpc = "renameObjects"
    /\ tmp.objects.exists
    /\ pub' = [pub EXCEPT !.objects = tmp.objects]
    /\ tmp' = [tmp EXCEPT !.objects = Absent]
    /\ hpc' = "idle"
    /\ running' = running - 1
    /\ outcome' = "ok"
    /\ UNCHANGED <<registry, clock, cycle, good, pubAtStart, faults, due>>
    /\ UNCHANGED cmdVars

\* Lines 439-440: rename() fails, as it must when there is no file at the .tmp
\* path: throw.
RenameObjectsFail ==
    /\ hpc = "renameObjects"
    /\ IF tmp.objects.exists
       THEN faults < MaxFaults /\ faults' = faults + 1
       ELSE faults' = faults
    /\ hpc' = "idle"
    /\ running' = running - 1
    /\ outcome' = "rename objects failed"
    /\ UNCHANGED <<registry, clock, cycle, good, tmp, pub, pubAtStart, due>>
    /\ UNCHANGED cmdVars

\* Another part of the daemon changes the registry: the service "disk" gets its
\* first check result. The handler reads the registry in lines 373-424 only, so
\* the change is taken between two calls.
RegistryChange ==
    /\ hpc = "idle"
    /\ registry = RegistryAtStart
    /\ registry' = RegistryChecked
    /\ UNCHANGED <<clock, hpc, cycle, good, tmp, pub, pubAtStart, outcome, faults, running,
                   due>>
    /\ UNCHANGED cmdVars

\* The timer expires while a call of the handler is running: the call it owes
\* is queued behind the running one.
TimerExpires ==
    /\ hpc # "idle"
    /\ ~due
    /\ due' = TRUE
    /\ UNCHANGED <<registry, clock, hpc, cycle, good, tmp, pub, pubAtStart, outcome, faults,
                   running>>
    /\ UNCHANGED cmdVars

\* The publisher before Start(): nothing written yet, the timer not started.
InitPubFiles ==
    /\ registry = RegistryAtStart
    /\ clock = 0
    /\ hpc = "idle"
    /\ cycle = 0
    /\ good = [status |-> FALSE, objects |-> FALSE]
    /\ tmp = [status |-> Absent, objects |-> Absent]
    /\ pub = [status |-> Absent, objects |-> Absent]
    /\ pubAtStart = pub
    /\ outcome = "none"
    /\ running = 0
    /\ due = FALSE

InitPubIdle ==
    /\ InitPubFiles
    /\ faults = 0

(***************************************************************************)
(* ProcessCommand.                                                         *)
(***************************************************************************)
MsgMissingTimestamp == "Missing timestamp in command"
MsgInvalidTimestamp == "Invalid timestamp in command"
MsgMissingArguments == "Missing arguments in command"
MsgCommandFailed == "External command failed"

\* What one call of ProcessCommand did: how it ended (kind), the warning it
\* logged, whether it called ExternalCommand::Execute and with what, whether that
\* call raised an exception, and whether an exception left ProcessCommand.
Result(kind, warning, ts, name, args, raised, escaped) ==
    [kind |-> kind, warning |-> warning, ts |-> ts, name |-> name, args |-> args,
     raised |-> raised, escaped |-> escaped]

NoCall(kind, warning) == Result(kind, warning, 0, <<>>, <<>>, FALSE, FALSE)

\* Line 168 throws std::out_of_range, outside the try block of lines 188-196.
OutOfRange == Result("OutOfRange", "", 0, <<>>, <<>>, FALSE, TRUE)

\* A call of Execute with no try block around it: its exception leaves
\* ProcessCommand, unlogged.
ExecuteOutcomesUncaught ==
    { [raised |-> FALSE, escaped |-> FALSE, warning |-> ""],
      [raised |-> TRUE, escaped |-> TRUE, warning |-> ""] }

\* Lines 188-196: ExternalCommand::Execute returns, or raises an exception that
\* the catch block logs as a warning.
ExecuteOutcomes ==
    { [raised |-> FALSE, escaped |-> FALSE, warning |-> ""],
      [raised |-> TRUE, escaped |-> FALSE, warning |-> MsgCommandFailed] }

\* Lines 172-196: from the check of the timestamp on.
DispatchAfterTimestamp(ts, args) ==
    IF ts = 0 THEN {NoCall("InvalidTimestamp", MsgInvalidTimestamp)}
    ELSE LET argv == Split(args)
         IN  IF Len(argv) = 0
             THEN {NoCall("MissingArguments", MsgMissingArguments)}
             ELSE LET argvExtra == Tail(argv)
                  IN  { Result("Executed", o.warning, ts, argv[1], argvExtra,
                               o.raised, o.escaped) : o \in ExecuteOutcomes }

\* The results ProcessCommand(command) can have.
ProcessCommand(command) ==
    IF IsEmpty(command) THEN {NoCall("Ignored", "")}
    ELSE IF At(command, 0) # "[" THEN {NoCall("MissingTimestamp", MsgMissingTimestamp)}
    ELSE LET pos == FindFirstOf(command, "]")
         IN  IF pos = NPos THEN {NoCall("MissingTimestamp", MsgMissingTimestamp)}
             ELSE IF SubStrThrows(command, pos + 2) THEN {OutOfRange}
             ELSE LET timestamp == SubStr(command, 1, pos - 1)
                      args == SubStr(command, pos + 2, NPos)
                  IN  UNION {DispatchAfterTimestamp(ts, args) : ts \in ToDouble(timestamp)}

\* Event::Post(boost::bind(&CompatComponent::ProcessCommand, this, command)): the
\* queued callback with its copy of the line (and whether it was read after a
\* re-open of the pipe).
Posted(command, afterEof) == [command |-> command, afterEof |-> afterEof]

\* The event loop runs the oldest posted callback: ProcessCommand(command). What
\* the event loop does with an exception that leaves the callback is not part
\* of this component: the result records it (escaped) and the loop goes on.
ProcessEvent ==
    /\ eventQueue # <<>>
    /\ \E r \in ProcessCommand(Head(eventQueue).command) :
           log' = Append(log, [command |-> Head(eventQueue).command,
                               afterEof |-> Head(eventQueue).afterEof,
                               result |-> r])
    /\ eventQueue' = Tail(eventQueue)
    /\ UNCHANGED <<node, pc, exitCause, fds, writer, pipe, written, origin, sawEof>>
    /\ UNCHANGED setup
    /\ UNCHANGED pubVars

(***************************************************************************)
(* Decode runs: one line, posted, then run by the event loop. The line is  *)
(* either any text over the alphabet, or built from a timestamp text, a    *)
(* separator character and ';'-joined fields.                              *)
(***************************************************************************)
RECURSIVE Join(_)
Join(fields) ==
    IF Len(fields) = 0 THEN <<>>
    ELSE IF Len(fields) = 1 THEN fields[1]
    ELSE fields[1] \o <<";">> \o Join(Tail(fields))

BuildLine(o) == <<"[">> \o o.ts \o <<"]">> \o o.sep \o Join(o.fields)

NotBuilt == [built |-> FALSE, ts |-> <<>>, sep |-> <<>>, fields |-> <<>>]

Origins ==
    [built : {TRUE}, ts : Str(TsChars, MaxTs), sep : Separators,
     fields : UNION {[1..n -> FieldValues] : n \in 1..MaxFields}]

\* No setup under way: before lstat(), and once the loop has opened the pipe.
NoSetup == [found |-> "none", calls |-> <<>>]

InitChannelIdle ==
    /\ node = "absent"
    /\ pc = "start"
    /\ exitCause = "none"
    /\ fds = 0
    /\ writer = FALSE
    /\ pipe = <<>>
    /\ written = 0
    /\ log = <<>>
    /\ sawEof = FALSE
    /\ setup = NoSetup

InitDecode ==
    /\ InitChannelIdle
    /\ InitPubIdle
    /\ \/ /\ origin = NotBuilt
          /\ eventQueue \in {<<Posted(l, FALSE)>> : l \in Str(Alphabet, MaxGarbage)}
       \/ /\ origin \in Origins
          /\ eventQueue = <<Posted(BuildLine(origin), FALSE)>>

SpecDecode == InitDecode /\ [][ProcessEvent]_vars

(***************************************************************************)
(* CommandPipeThread, the peers that write to the pipe, and the event loop.*)
(*                                                                         *)
(* The pipe follows FIFO semantics: open() for reading returns once a      *)
(* writer has the pipe open; a read meets end-of-stream when the pipe is   *)
(* empty and no writer has it open; unread bytes are discarded when the    *)
(* last handle of either side is closed.                                   *)
(***************************************************************************)
\* char line[2048]
LineBufSize == 2048

\* What one write() call of a peer appends to the pipe: a well-formed command
\* ended by "\r\n", a line that ends at its ']', an empty line, or a text with
\* no line end (the next write continues it, or the end-of-stream ends it).
Writes ==
    { <<"[", "1", "]", " ", "a", ";", "b", "\r", "\n">>,
      <<"[", "1", "]", "\n">>,
      <<"\n">>,
      <<"b">> }

FirstNewline(buf) ==
    IF \E i \in 1..Len(buf) : buf[i] = "\n"
    THEN CHOOSE i \in 1..Len(buf) : buf[i] = "\n" /\ \A j \in 1..(i - 1) : buf[j] # "\n"
    ELSE 0

\* The number of characters fgets(line, sizeof(line), fp) takes from the pipe:
\* through the first "\n", but at most sizeof(line) - 1; at end-of-stream what is
\* left. 0: fgets blocks (a writer is connected) or returns NULL (eof).
FgetsLen(buf, eof) ==
    LET nl == FirstNewline(buf)
        cap == LineBufSize - 1
    IN  IF nl > 0 /\ nl <= cap THEN nl
        ELSE IF Len(buf) >= cap THEN cap
        ELSE IF eof THEN Len(buf)
        ELSE 0

RECURSIVE StripEol(_)
\* Lines 136-138: remove trailing '\r' and '\n'.
StripEol(s) ==
    IF Len(s) > 0 /\ (s[Len(s)] = "\r" \/ s[Len(s)] = "\n")
    THEN StripEol(SubSeq(s, 1, Len(s) - 1))
    ELSE s

\* Unread bytes survive the close of a handle only while the other side is open.
AfterClose(buf, otherSideOpen) == IF otherSideOpen THEN buf ELSE <<>>

\* A setup that keeps a pipe only when access(R_OK) fails on it.
LstatAccessInverted ==
    /\ pc = "lstat"
    /\ \/ /\ node = "absent"
          /\ pc' = "mkfifo"
          /\ setup' = [found |-> node, calls |-> <<>>]
          /\ UNCHANGED <<node, exitCause>>
       \/ /\ node = "fifo_unreadable"
          /\ pc' = "open"
          /\ setup' = [found |-> node, calls |-> <<>>]
          /\ UNCHANGED <<node, exitCause>>
       \/ /\ node \in {"fifo", "other"}
          /\ node' = "absent"
          /\ pc' = "mkfifo"
          /\ setup' = [found |-> node, calls |-> <<"unlink">>]
          /\ UNCHANGED exitCause
       \/ /\ node \in {"fifo", "other"}
          /\ pc' = "dead"
          /\ exitCause' = "unlink"
          /\ setup' = [found |-> node, calls |-> <<"unlink">>]
          /\ UNCHANGED node
    /\ UNCHANGED <<fds, writer, pipe, written, eventQueue, log, origin, sawEof>>
    /\ UNCHANGED pubVars

\* Lines 106-113: lstat(), then S_ISFIFO && access(R_OK), else unlink().
Lstat ==
    /\ pc = "lstat"
    /\ \/ /\ node = "absent"
          /\ pc' = "mkfifo"
          /\ setup' = [found |-> node, calls |-> <<>>]
          /\ UNCHANGED <<node, exitCause>>
       \/ /\ node = "fifo"
          /\ pc' = "open"
          /\ setup' = [found |-> node, calls |-> <<>>]
          /\ UNCHANGED <<node, exitCause>>
       \/ /\ node \in {"fifo_unreadable", "other"}
          /\ node' = "absent"
          /\ pc' = "mkfifo"
          /\ setup' = [found |-> node, calls |-> <<"unlink">>]
          /\ UNCHANGED exitCause
       \/ /\ node \in {"fifo_unreadable", "other"}
          /\ pc' = "dead"
          /\ exitCause' = "unlink"
          /\ setup' = [found |-> node, calls |-> <<"unlink">>]
          /\ UNCHANGED node
    /\ UNCHANGED <<fds, writer, pipe, written, eventQueue, log, origin, sawEof>>
    /\ UNCHANGED pubVars

\* Lines 116-117: mkfifo(), reached with fifo_ok false.
Mkfifo ==
    /\ pc = "mkfifo"
    /\ setup' = [setup EXCEPT !.calls = Append(@, "mkfifo")]
    /\ \/ /\ node' = "fifo"
          /\ pc' = "open"
          /\ UNCHANGED exitCause
       \/ /\ pc' = "dead"
          /\ exitCause' = "mkfifo"
          /\ UNCHANGED node
    /\ UNCHANGED <<fds, writer, pipe, written, eventQueue, log, origin, sawEof>>
    /\ UNCHANGED pubVars

\* Line 120: open(O_RDONLY) returns a handle; a writer has the pipe open then
\* (one that was connected already, or one whose arrival ends the wait).
ThreadOpen ==
    /\ pc = "open"
    /\ node = "fifo"
    /\ fds' = fds + 1
    /\ writer' = TRUE
    /\ pc' = "fdopen"
    /\ UNCHANGED <<node, exitCause, pipe, written, eventQueue, log, origin, sawEof>>
    /\ setup' = NoSetup
    /\ UNCHANGED pubVars

\* Lines 122-123: open() fails.
ThreadOpenFail ==
    /\ pc = "open"
    /\ pc' = "dead"
    /\ exitCause' = "open"
    /\ UNCHANGED <<node, fds, writer, pipe, written, eventQueue, log, origin, sawEof>>
    /\ UNCHANGED setup
    /\ UNCHANGED pubVars

\* Line 125: fdopen() succeeds.
Fdopen ==
    /\ pc = "fdopen"
    /\ pc' = "fgets"
    /\ UNCHANGED <<node, exitCause, fds, writer, pipe, written, eventQueue, log, origin, sawEof>>
    /\ UNCHANGED setup
    /\ UNCHANGED pubVars

\* Lines 127-130: fdopen() fails: close(fd), throw.
FdopenFail ==
    /\ pc = "fdopen"
    /\ fds' = fds - 1
    /\ pipe' = AfterClose(pipe, writer)
    /\ pc' = "dead"
    /\ exitCause' = "fdopen"
    /\ UNCHANGED <<node, writer, written, eventQueue, log, origin, sawEof>>
    /\ UNCHANGED setup
    /\ UNCHANGED pubVars

\* A thread that hands over a line only when the command before it has been
\* taken off the queue.
FgetsLineWaits ==
    /\ pc = "fgets"
    /\ eventQueue = <<>>
    /\ LET k == FgetsLen(pipe, ~writer)
       IN  /\ k > 0
           /\ eventQueue' = Append(eventQueue, Posted(StripEol(SubSeq(pipe, 1, k)), sawEof))
           /\ pipe' = SubSeq(pipe, k + 1, Len(pipe))
    /\ UNCHANGED <<node, pc, exitCause, fds, writer, written, log, origin, sawEof>>
    /\ UNCHANGED setup
    /\ UNCHANGED pubVars

\* Lines 134-142: fgets() returns a line; strip its end; Event::Post.
FgetsLine ==
    /\ pc = "fgets"
    /\ LET k == FgetsLen(pipe, ~writer)
       IN  /\ k > 0
           /\ eventQueue' = Append(eventQueue, Posted(StripEol(SubSeq(pipe, 1, k)), sawEof))
           /\ pipe' = SubSeq(pipe, k + 1, Len(pipe))
    /\ UNCHANGED <<node, pc, exitCause, fds, writer, written, log, origin, sawEof>>
    /\ UNCHANGED setup
    /\ UNCHANGED pubVars

\* An end-of-stream that ends the thread instead of leading to the re-open.
FgetsEofLeaves ==
    /\ pc = "fgets"
    /\ ~writer
    /\ FgetsLen(pipe, TRUE) = 0
    /\ pc' = "dead"
    /\ UNCHANGED <<node, exitCause, fds, writer, pipe, written, eventQueue, log, origin, sawEof>>
    /\ UNCHANGED setup
    /\ UNCHANGED pubVars

\* Line 134: fgets() returns NULL at end-of-stream: leave the while loop.
FgetsEof ==
    /\ pc = "fgets"
    /\ ~writer
    /\ FgetsLen(pipe, TRUE) = 0
    /\ pc' = "fclose"
    /\ UNCHANGED <<node, exitCause, fds, writer, pipe, written, eventQueue, log, origin, sawEof>>
    /\ UNCHANGED setup
    /\ UNCHANGED pubVars

\* A loop that goes back to open() without closing the handle.
FcloseLeak ==
    /\ pc = "fclose"
    /\ pc' = "open"
    /\ sawEof' = TRUE
    /\ UNCHANGED <<node, exitCause, fds, pipe, writer, written, eventQueue, log, origin>>
    /\ UNCHANGED setup
    /\ UNCHANGED pubVars

\* Line 144: fclose(fp), then back to the top of the for loop.
Fclose ==
    /\ pc = "fclose"
    /\ fds' = fds - 1
    /\ pipe' = AfterClose(pipe, writer)
    /\ pc' = "open"
    /\ sawEof' = TRUE
    /\ UNCHANGED <<node, exitCause, writer, written, eventQueue, log, origin>>
    /\ UNCHANGED setup
    /\ UNCHANGED pubVars

\* A peer opens the pipe for writing while the thread holds it open.
WriterOpen ==
    /\ ~writer
    /\ fds > 0
    /\ writer' = TRUE
    /\ UNCHANGED <<node, pc, exitCause, fds, pipe, written, eventQueue, log, origin, sawEof>>
    /\ UNCHANGED setup
    /\ UNCHANGED pubVars

\* The connected peer writes (possible only while the pipe has a reader).
WriterWrite ==
    /\ writer
    /\ fds > 0
    /\ written < MaxWrites
    /\ \E w \in Writes : pipe' = pipe \o w
    /\ written' = written + 1
    /\ UNCHANGED <<node, pc, exitCause, fds, writer, eventQueue, log, origin, sawEof>>
    /\ UNCHANGED setup
    /\ UNCHANGED pubVars

\* The connected peer closes its end.
WriterClose ==
    /\ writer
    /\ writer' = FALSE
    /\ pipe' = AfterClose(pipe, fds > 0)
    /\ UNCHANGED <<node, pc, exitCause, fds, written, eventQueue, log, origin, sawEof>>
    /\ UNCHANGED setup
    /\ UNCHANGED pubVars

ThreadStep ==
    \/ Lstat
    \/ Mkfifo
    \/ ThreadOpen
    \/ ThreadOpenFail
    \/ Fdopen
    \/ FdopenFail
    \/ FgetsLine
    \/ FgetsEof
    \/ Fclose

\* Start(): the thread is created and begins with lstat() on the command path,
\* where anything may be.
InitCmd ==
    /\ node \in {"absent", "fifo", "fifo_unreadable", "other"}
    /\ pc = "lstat"
    /\ exitCause = "none"
    /\ fds = 0
    /\ writer = FALSE
    /\ pipe = <<>>
    /\ written = 0
    /\ eventQueue = <<>>
    /\ log = <<>>
    /\ origin = NotBuilt
    /\ sawEof = FALSE
    /\ setup = NoSetup
    /\ InitPubIdle

NextCmd ==
    \/ ThreadStep
    \/ WriterOpen
    \/ WriterWrite
    \/ WriterClose
    \/ ProcessEvent

SpecCmd == InitCmd /\ [][NextCmd]_vars

\* The thread is scheduled, a blocked open() returns when a peer arrives, and the
\* event loop runs what was posted.
FairSpecCmd == SpecCmd /\ WF_vars(ThreadStep) /\ WF_vars(ProcessEvent)

(***************************************************************************)
(* The channel with peers that write lines about as long as the buffer of  *)
(* line 132.                                                               *)
(***************************************************************************)
Pad(n) == [i \in 1..n |-> "a"]

\* What one write() of such a peer appends, each ended by one "\n": a line that
\* just fits the buffer, a line one character longer, and a line whose
\* characters beyond the buffer read as a command.
LongWrites ==
    { Pad(LineBufSize - 2) \o <<"\n">>,
      Pad(LineBufSize - 1) \o <<"\n">>,
      Pad(LineBufSize - 1) \o <<"[", "1", "]", " ", "a", ";", "b", "\n">> }

\* The connected peer writes one of the long lines.
WriterWriteLong ==
    /\ writer
    /\ fds > 0
    /\ written < MaxWrites
    /\ \E w \in LongWrites : pipe' = pipe \o w
    /\ written' = written + 1
    /\ UNCHANGED <<node, pc, exitCause, fds, writer, eventQueue, log, origin, sawEof>>
    /\ UNCHANGED setup
    /\ UNCHANGED pubVars

NextLong ==
    \/ ThreadStep
    \/ WriterOpen
    \/ WriterWriteLong
    \/ WriterClose
    \/ ProcessEvent

SpecLong == InitCmd /\ [][NextLong]_vars

(***************************************************************************)
(* The publisher alone: the timer's calls of StatusTimerHandler, the clock *)
(* and the rest of the daemon changing the registry.                       *)
(***************************************************************************)
InitPub ==
    /\ InitChannelIdle
    /\ eventQueue = <<>>
    /\ origin = NotBuilt
    /\ InitPubIdle

NextPub ==
    \/ WriteTemps
    \/ RenameStatus
    \/ RenameStatusFail
    \/ RenameObjects
    \/ RenameObjectsFail
    \/ RegistryChange

SpecPub == InitPub /\ [][NextPub]_vars

(***************************************************************************)
(* The timer and the handler, with no open, write or rename made to fail:  *)
(* the timer may expire while the handler runs.                            *)
(***************************************************************************)
InitTimer ==
    /\ InitChannelIdle
    /\ eventQueue = <<>>
    /\ origin = NotBuilt
    /\ InitPubFiles
    /\ faults = MaxFaults

NextTimer ==
    \/ WriteTemps
    \/ RenameStatus
    \/ RenameObjects
    \/ RegistryChange
    \/ TimerExpires

SpecTimer == InitTimer /\ [][NextTimer]_vars

(***************************************************************************)
(* Claims about ProcessCommand, checked over the decode runs (SpecDecode). *)
(***************************************************************************)
\* The text between '[' and the first ']' of a line that has both.
TimestampText(line) == SubSeq(line, 2, FindFirstOf(line, "]"))

\* A built line of the form "[T] NAME;A1;...;An" with T a non-zero number.
WellFormed(o) ==
    o.built /\ o.sep = <<" ">> /\ IsNumeric(o.ts) /\ DigitsValue(o.ts) # 0

\* C1: for every line "[T] NAME;A1;...;An" with T a non-zero number,
\* ProcessCommand calls ExternalCommand::Execute with timestamp T, name NAME and
\* the arguments A1..An in their order, empty ones kept, none trimmed or merged.
C1_WellFormedLineExecuted ==
    \A i \in 1..Len(log) :
        (WellFormed(origin) /\ log[i].command = BuildLine(origin)) =>
            /\ log[i].result.kind = "Executed"
            /\ log[i].result.ts = DigitsValue(origin.ts)
            /\ log[i].result.name = origin.fields[1]
            /\ log[i].result.args = Tail(origin.fields)

\* C1's case: a well-formed line with an empty first argument and a second one
\* ("[T] NAME;;B") has been run and Execute was called.
C1_Witness ==
    \E i \in 1..Len(log) :
        /\ WellFormed(origin)
        /\ log[i].command = BuildLine(origin)
        /\ Len(origin.fields) = 3
        /\ origin.fields[1] # <<>>
        /\ origin.fields[2] = <<>>
        /\ origin.fields[3] # <<>>
        /\ log[i].result.kind = "Executed"

\* C2 (its second half): every line that starts with '[', has a ']' and whose
\* text between them is 0, empty or not a number is answered with the
\* "Invalid timestamp" warning. It fails for such a line that ends with the ']'
\* or has nothing after it ("[0]"): SubStr(pos + 2) throws before the check.
C2_InvalidTimestampReported ==
    \A i \in 1..Len(log) :
        LET line == log[i].command
        IN  (/\ line # <<>>
             /\ line[1] = "["
             /\ FindFirstOf(line, "]") # NPos
             /\ ToDouble(TimestampText(line)) = {0})
            => /\ log[i].result.kind = "InvalidTimestamp"
               /\ log[i].result.warning = MsgInvalidTimestamp

\* C3: a line with a valid non-zero timestamp and nothing after "] " is answered
\* with "Missing arguments" and Execute is not called; Execute is never called
\* with an empty command name.
C3_EmptyNameRejected ==
    \A i \in 1..Len(log) :
        /\ (WellFormed(origin) /\ origin.fields = << <<>> >>
              /\ log[i].command = BuildLine(origin))
           => log[i].result.kind = "MissingArguments"
        /\ log[i].result.kind = "Executed" => log[i].result.name # <<>>

\* A command line: '[', a text that can parse as a non-zero number, ']', one
\* more character (the code skips it unread) and a name that is not empty.
WellFormedLine(line) ==
    /\ line # <<>>
    /\ line[1] = "["
    /\ FindFirstOf(line, "]") # NPos
    /\ \E v \in ToDouble(TimestampText(line)) : v # 0
    /\ Len(line) >= FindFirstOf(line, "]") + 3
    /\ At(line, FindFirstOf(line, "]") + 2) # ";"

Executed(entries) == {i \in 1..Len(entries) : entries[i].result.kind = "Executed"}

\* C13: every command line that was read is passed to Execute once it is run,
\* and Execute has been called at most as often as command lines have been read
\* (those run and those still queued).
C13_ExecutedOncePerCommandLine ==
    /\ \A i \in 1..Len(log) :
           (WellFormedLine(log[i].command) /\ ~log[i].result.escaped) =>
               log[i].result.kind = "Executed"
    /\ Cardinality(Executed(log)) <=
           Cardinality({i \in 1..Len(log) : WellFormedLine(log[i].command)})
               + Cardinality({i \in 1..Len(eventQueue) :
                                 WellFormedLine(eventQueue[i].command)})

(***************************************************************************)
(* Claims about the command channel (SpecCmd, FairSpecCmd).                *)
(***************************************************************************)
\* Where the thread stands inside for (;;) of lines 119-145.
LoopPcs == {"open", "fdopen", "fgets", "fclose"}

\* C5: once CommandPipeThread is in its loop, no input line and no disconnect of
\* a writer makes it leave: every step out of the loop is a failed open() or
\* fdopen() of the pipe, taken by the thread where it makes that call.
C5_LoopLeftOnlyByPipeFailure ==
    [][(pc \in LoopPcs /\ pc' \notin LoopPcs) =>
          /\ pc' = "dead"
          /\ \/ pc = "open" /\ exitCause' = "open"
             \/ pc = "fdopen" /\ exitCause' = "fdopen"]_vars

\* C5's case: a malformed line and a line whose processing threw were read and
\* run, the second after a disconnect and a re-open, the second writer has
\* disconnected too, and the thread is back at open().
C5_Witness ==
    /\ pc = "open"
    /\ fds = 0
    /\ ~writer
    /\ \E i, j \in 1..Len(log) :
           /\ log[i].result.kind = "MissingTimestamp"
           /\ log[j].result.kind = "OutOfRange"
           /\ log[j].afterEof

C7_ExecuteErrorCaught ==
    /\ [][(Len(log') = Len(log) + 1 /\ log'[Len(log')].result.raised) =>
             /\ ~log'[Len(log')].result.escaped
             /\ log'[Len(log')].result.warning = MsgCommandFailed
             /\ pc' = pc
             /\ exitCause' = exitCause
             /\ fds' = fds
             /\ pipe' = pipe
             /\ eventQueue' = Tail(eventQueue)]_vars
    /\ []((eventQueue # <<>>) => ENABLED ProcessEvent)

\* C7's case: Execute raised for one command, and a line read later has been run
\* with Execute returning.
C7_Witness ==
    \E i, j \in 1..Len(log) :
        /\ i < j
        /\ log[i].result.raised
        /\ ~log[i].result.escaped
        /\ log[j].result.kind = "Executed"
        /\ ~log[j].result.raised
        /\ pc \in LoopPcs

(***************************************************************************)
(* Claims about StatusTimerHandler.                                        *)
(***************************************************************************)
\* The whole document of a file, as a call with nothing failing writes it.
Complete(f, file) ==
    IF f = "status"
    THEN \E st \in TaskStatistics :
             file.blocks = StatusHead(file.clockFrom, st)
                               \o StatusBody(file.regFrom, file.clockFrom)
    ELSE file.blocks = ObjectsHead \o ObjectsBody(file.regFrom)

RenameFailed == {"rename status failed", "rename objects failed"}

\* C4: at every instant the file at each published path is a complete document,
\* and it is the one published before the running (or last) cycle began or the
\* one this cycle wrote; never a short or cut document.
C4_PublishedComplete ==
    \A f \in Files :
        pub[f].exists =>
            /\ Complete(f, pub[f])
            /\ pub[f] = pubAtStart[f] \/ pub[f].cycle = cycle

C9_FailedTempNotPublished ==
    (hpc = "idle" /\ cycle > 0 /\ (~good.status \/ ~good.objects)) =>
        /\ outcome # "ok"
        /\ pub = pubAtStart

\* The blocks with the value of every key in masked blanked.
Mask(blocks, masked) ==
    [i \in DOMAIN blocks |->
        [blocks[i] EXCEPT !.kv = [j \in DOMAIN blocks[i].kv |->
            IF <<blocks[i].type, blocks[i].kv[j][1]>> \in masked
            THEN <<blocks[i].kv[j][1], "">>
            ELSE blocks[i].kv[j]]]]

\* The generation timestamp of the header.
Created == {<<"info", "created">>}

\* Every key whose value is a reading of the clock or of the check statistics.
TimeKeys ==
    Created \cup {<<"programstatus", "active_scheduled_service_check_stats">>,
                  <<"hoststatus", "last_check">>, <<"hoststatus", "next_check">>,
                  <<"hoststatus", "last_update">>, <<"servicestatus", "last_update">>}

\* The handler has just written the .tmp files of a cycle, the published files
\* are those of the cycle before, no open, write or rename has failed, and the
\* registry is the same for both cycles and the clock is not.
TwoCycles ==
    /\ hpc = "renameStatus"
    /\ faults = 0
    /\ \A f \in Files : /\ tmp[f].exists /\ tmp[f].cycle = cycle
                        /\ pub[f].exists /\ pub[f].cycle = cycle - 1
    /\ pub.status.regFrom = tmp.status.regFrom
    /\ pub.status.clockFrom # tmp.status.clockFrom

\* C10 as stated: the documents of two such cycles are the same but for
\* info.created.
C10_SameButCreated ==
    TwoCycles =>
        /\ Mask(tmp.status.blocks, Created) = Mask(pub.status.blocks, Created)
        /\ tmp.objects.blocks = pub.objects.blocks

\* C10: the documents of two consecutive cycles at different clock values over an
\* unchanged registry are the same but for the clock readings and the check
\* statistics: the objects documents are identical, and the status documents are
\* identical except for info.created, the check statistics of programstatus,
\* last_check, next_check and last_update of every hoststatus block and
\* last_update of every servicestatus block; info.created is not their only
\* difference.
C10_SameButTimeKeys ==
    TwoCycles =>
        /\ Mask(tmp.status.blocks, TimeKeys) = Mask(pub.status.blocks, TimeKeys)
        /\ tmp.objects.blocks = pub.objects.blocks
        /\ Mask(tmp.status.blocks, Created) # Mask(pub.status.blocks, Created)

\* C10's case: the second of two cycles has written its documents, of a registry
\* with a checked service, at a later clock value than the first.
C10_Witness ==
    /\ TwoCycles
    /\ cycle = 2
    /\ registry = RegistryChecked
    /\ tmp.status.clockFrom > pub.status.clockFrom

Called(call) == \E i \in 1..Len(setup.calls) : setup.calls[i] = call

\* C15 as stated: unlink() is called only on a node that is not a pipe.
C15_PipeNeverUnlinked ==
    Called("unlink") => setup.found = "other"

\* C15: the setup calls unlink() only on an existing node that is not a readable
\* pipe (not a pipe, or a pipe that access(R_OK) refuses), and mkfifo() only
\* after that unlink() or when nothing was there; a readable pipe is kept and
\* opened with neither call made.
C15_ReadablePipeReused ==
    /\ Called("unlink") => setup.found \in {"fifo_unreadable", "other"}
    /\ Called("mkfifo") =>
           \/ setup.found = "absent" /\ setup.calls = <<"mkfifo">>
           \/ setup.found \in {"fifo_unreadable", "other"}
                  /\ setup.calls = <<"unlink", "mkfifo">>
    /\ setup.found = "fifo" => (setup.calls = <<>> /\ node = "fifo" /\ pc \in {"open", "dead"})
    /\ (pc = "open" /\ setup.found \in {"fifo_unreadable", "other"}) =>
           (setup.calls = <<"unlink", "mkfifo">> /\ node = "fifo")

\* C15's case: lstat() found a pipe that could not be read; it has been unlinked
\* and made anew, and the loop is about to open it.
C15_Witness ==
    /\ setup = [found |-> "fifo_unreadable", calls |-> <<"unlink", "mkfifo">>]
    /\ node = "fifo"
    /\ pc = "open"

\* C12: the thread never runs a command and never waits for one. No step of the
\* thread adds to the log of ProcessCommand calls; a step that takes a line off
\* the pipe posts exactly that one line and stays in the read loop; and whether
\* the thread can read the next line, meet the end-of-stream, close or re-open
\* does not depend on what is still queued.
C12_ThreadOnlyPosts ==
    /\ [][ThreadStep => log' = log]_vars
    /\ [][(pc = "fgets" /\ pc' = "fgets" /\ pipe' # pipe /\ Len(pipe') < Len(pipe)) =>
             /\ Len(eventQueue') = Len(eventQueue) + 1
             /\ SubSeq(eventQueue', 1, Len(eventQueue)) = eventQueue
             /\ log' = log]_vars
    /\ []((pc = "fgets" /\ FgetsLen(pipe, ~writer) > 0) => ENABLED FgetsLine)
    /\ []((pc = "fgets" /\ ~writer /\ FgetsLen(pipe, TRUE) = 0) => ENABLED FgetsEof)
    /\ []((pc = "fclose") => ENABLED Fclose)
    /\ []((pc = "open" /\ node = "fifo") => ENABLED ThreadOpen)

\* C12's case: two lines are posted and none has been run; the thread has gone
\* through an end-of-stream and a re-open between them and is reading on.
C12_Witness ==
    /\ Len(eventQueue) = 2
    /\ ~eventQueue[1].afterEof
    /\ eventQueue[2].afterEof
    /\ log = <<>>
    /\ pc = "fgets"

\* Where a block of a type stands by the order Hosts, HostGroups, Services,
\* ServiceGroups (0 for the blocks written before the loops).
Rank(type) ==
    CASE type \in {"define host", "hoststatus"} -> 1
      [] type = "define hostgroup" -> 2
      [] type \in {"define service", "servicestatus"} -> 3
      [] type = "define servicegroup" -> 4
      [] OTHER -> 0

Ordered(blocks) ==
    \A i, j \in DOMAIN blocks : i < j => Rank(blocks[i].type) <= Rank(blocks[j].type)

Types(blocks) == {blocks[i].type : i \in DOMAIN blocks}

\* C14: in every file the handler has written, at a .tmp path or published, whole
\* or cut short, the blocks stand in the order Hosts, HostGroups, Services,
\* ServiceGroups: every define host block before every define hostgroup block,
\* these before every define service block, these before every define
\* servicegroup block, and every hoststatus block before every servicestatus
\* block.
C14_BlocksInRegistryOrder ==
    \A f \in Files : Ordered(tmp[f].blocks) /\ Ordered(pub[f].blocks)

\* C14's case: both documents of a cycle are published with blocks of every
\* type, more than one of the hosts and of the services.
C14_Witness ==
    /\ hpc = "idle"
    /\ outcome = "ok"
    /\ Types(pub.objects.blocks) = {"#", "define host", "define hostgroup", "define service",
                                    "define servicegroup"}
    /\ Types(pub.status.blocks) = {"#", "info", "programstatus", "hoststatus",
                                   "servicestatus"}
    /\ Len(pub.objects.blocks) = 8
    /\ Len(pub.status.blocks) = 7

HasKey(block, key) == \E i \in DOMAIN block.kv : block.kv[i][1] = key

ValueOf(block, key) ==
    block.kv[CHOOSE i \in DOMAIN block.kv : block.kv[i][1] = key][2]

\* The key that holds the list of a block, if the block is of a type with one.
ListKey(type) ==
    CASE type = "define host" -> "parents"
      [] type \in {"define hostgroup", "define servicegroup"} -> "members"
      [] OTHER -> ""

\* C16 as stated: in a published objects document every define host block has
\* the parents key and every group block the members key.
C16_ListKeysAlwaysPresent ==
    \A i \in DOMAIN pub.objects.blocks :
        LET b == pub.objects.blocks[i]
        IN  ListKey(b.type) # "" => HasKey(b, ListKey(b.type))

\* C16: in a published whole objects document every define hostgroup and define
\* servicegroup block has the members key, with an empty value when the group
\* has no members; a define host block has the parents key exactly when the
\* host has parents, and then its value is their comma-joined names.
C16_MembersPresentParentsIfAny ==
    (pub.objects.exists /\ Complete("objects", pub.objects)) =>
        LET reg == pub.objects.regFrom
            blocks == pub.objects.blocks
            nh == Len(reg.hosts)
        IN  /\ \A i \in DOMAIN blocks :
                   blocks[i].type \in {"define hostgroup", "define servicegroup"} =>
                       HasKey(blocks[i], "members")
            /\ \A g \in DOMAIN reg.hostgroups :
                   ValueOf(blocks[1 + nh + g], "members") = JoinComma(reg.hostgroups[g].members)
            /\ \A h \in DOMAIN reg.hosts :
                   /\ blocks[1 + h].type = "define host"
                   /\ HasKey(blocks[1 + h], "parents") <=> reg.hosts[h].parents # <<>>
                   /\ reg.hosts[h].parents # <<>> =>
                          ValueOf(blocks[1 + h], "parents") = JoinComma(reg.hosts[h].parents)

\* C16's case: a whole objects document is published, of a registry with a host
\* without parents, a host with one, and a host group without members.
C16_Witness ==
    /\ pub.objects.exists
    /\ Complete("objects", pub.objects)
    /\ \E h \in DOMAIN pub.objects.regFrom.hosts :
           pub.objects.regFrom.hosts[h].parents = <<>>
    /\ \E h \in DOMAIN pub.objects.regFrom.hosts :
           pub.objects.regFrom.hosts[h].parents # <<>>
    /\ \E g \in DOMAIN pub.objects.regFrom.hostgroups :
           /\ pub.objects.regFrom.hostgroups[g].members = <<>>
           /\ ValueOf(pub.objects.blocks[1 + Len(pub.objects.regFrom.hosts) + g], "members") = ""

\* The keys of a servicestatus block, in the order of lines 278-301.
ServiceStatusKeys ==
    <<"host_name", "service_description", "check_interval", "retry_interval",
      "has_been_checked", "should_be_scheduled", "check_execution_time", "check_latency",
      "current_state", "state_type", "plugin_output", "performance_data", "last_check",
      "next_check", "current_attempt", "max_attempts", "last_state_change",
      "last_hard_state_change", "last_update", "active_checks_enabled",
      "passive_checks_enabled", "problem_has_been_acknowledged", "acknowledgement_type",
      "acknowledgement_end_time">>

\* C17: in a published whole status document the servicestatus block of a
\* service with no check result has every key, with has_been_checked=0,
\* check_execution_time and check_latency zero, plugin_output and
\* performance_data empty, and last_check zero.
C17_UncheckedServiceDefaults ==
    (pub.status.exists /\ Complete("status", pub.status)) =>
        LET reg == pub.status.regFrom
            blocks == pub.status.blocks
        IN  \A sv \in DOMAIN reg.services :
                LET b == blocks[3 + Len(reg.hosts) + sv]
                IN  reg.services[sv].cr = NoCheckResult =>
                        /\ b.type = "servicestatus"
                        /\ [i \in DOMAIN b.kv |-> b.kv[i][1]] = ServiceStatusKeys
                        /\ ValueOf(b, "has_been_checked") = "0"
                        /\ ValueOf(b, "check_execution_time") = Fixed(0)
                        /\ ValueOf(b, "check_latency") = Fixed(0)
                        /\ ValueOf(b, "plugin_output") = ""
                        /\ ValueOf(b, "performance_data") = ""
                        /\ ValueOf(b, "last_check") = Fixed(0)

\* C18, over peers that write one newline-ended line per write(): the command
\* lines handed to processing (run or still queued) are never more than the
\* lines written (nothing of a line beyond its first LineBufSize - 1 characters
\* is handed on as a further command line), and each is at most LineBufSize - 1
\* characters long and ends with neither '\r' nor '\n'.
C18_OneCommandPerLine ==
    /\ Len(log) + Len(eventQueue) <= written
    /\ \A i \in 1..Len(eventQueue) :
           /\ Len(eventQueue[i].command) <= LineBufSize - 1
           /\ StripEol(eventQueue[i].command) = eventQueue[i].command

\* C19: every call of ProcessCommand returns normally, having dropped the line
\* or called Execute: no exception leaves it.
C19_ProcessCommandTotal ==
    \A i \in 1..Len(log) :
        /\ ~log[i].result.escaped
        /\ log[i].result.kind \in {"Ignored", "MissingTimestamp", "InvalidTimestamp",
                                   "MissingArguments", "Executed"}

\* C11: at most one call of StatusTimerHandler is running at any time, and it is
\* running exactly while the handler is between its open and its last rename; a
\* timer expiry during a call starts no second call and touches neither .tmp
\* file: it is queued, and the call it owes is made after the running one ends.
C11_OneCycleInFlight ==
    /\ [](running <= 1)
    /\ [](running = 1 <=> hpc # "idle")
    /\ [][(due' /\ ~due) => (running' = running /\ tmp' = tmp /\ hpc' = hpc
                               /\ cycle' = cycle)]_vars
    /\ [][(due /\ ~due') => (hpc = "idle" /\ running = 0 /\ running' = 1)]_vars

\* C11's case: the first call has published both files; the second is running,
\* between its two renames, and the timer has expired during it.
C11_Witness ==
    /\ cycle = 2
    /\ hpc = "renameObjects"
    /\ running = 1
    /\ pub.objects.exists /\ pub.objects.cycle = 1
    /\ due

\* C20: the published objects document never comes from a later cycle than the
\* published status document, and there is no objects document published
\* without a status document.
C20_ObjectsNotNewerThanStatus ==
    pub.objects.exists =>
        /\ pub.status.exists
        /\ pub.objects.cycle <= pub.status.cycle

====
